---- MODULE Spec2Model ----
(***************************************************************************)
(* Model of the Facebook -> articles synchronisation of news-backend:      *)
(* sync.js (syncPosts, lazySync, shouldSync, parsePost and the sync_meta   *)
(* helpers), the articles table of db.js and the HTTP handlers of          *)
(* server.js that start a sync.                                            *)
(*                                                                         *)
(* Every `await` of the JavaScript is a step boundary: an action is the    *)
(* completion of the awaited call followed by the synchronous code up to   *)
(* the next await.  A database call takes effect when it completes, with  *)
(* the arguments that were evaluated when it was issued.                   *)
(***************************************************************************)
EXTENDS Integers, Sequences, FiniteSets, TLC

\* ------------------------------------------------------------------ bounds
NumCallers == 2
MaxTicks == 2
MaxCalls == 2
MaxHeadBlocks == 4
MaxBodyBlocks == 4

\* --------------------------------------------------------------- constants
SYNC_COOLDOWN == 5 * 60 * 1000
HEADLINE_MAX == 100
SENTENCE_MIN == 20
MARKER_LEN == 44
PAGE_LIMIT == 25
HTTP_OK == 200
HTTP_ERROR == 500

TickMs == SYNC_COOLDOWN \div 2
StartTime == 4 * SYNC_COOLDOWN
EndTime == StartTime + MaxTicks * TickMs

\* the values Date.now() takes
Times == {StartTime + k * TickMs : k \in 0..MaxTicks}

Callers == 1..NumCallers
NoPromise == 0
NullStr == "NULL"

\* ------------------------------------------------------- string primitives
\* A JavaScript string is a sequence of one-character strings.
Rep(c, n) == [k \in 1..n |-> c]

Marker == Rep("-", MARKER_LEN)

IsSpace(c) == c \in {" ", "\t", "\r", "\n"}

TrimStart(s) ==
  IF \A k \in 1..Len(s) : IsSpace(s[k]) THEN <<>>
  ELSE LET first == CHOOSE k \in 1..Len(s) :
                      ~IsSpace(s[k]) /\ \A j \in 1..(k - 1) : IsSpace(s[j])
       IN  SubSeq(s, first, Len(s))

TrimEnd(s) ==
  IF \A k \in 1..Len(s) : IsSpace(s[k]) THEN <<>>
  ELSE LET last == CHOOSE k \in 1..Len(s) :
                     ~IsSpace(s[k]) /\ \A j \in (k + 1)..Len(s) : IsSpace(s[j])
       IN  SubSeq(s, 1, last)

Trim(s) == TrimEnd(TrimStart(s))

\* position of the first occurrence of pat in s, 0 when there is none
OccursAt(s, pat, k) == SubSeq(s, k, k + Len(pat) - 1) = pat

IndexOf(s, pat) ==
  LET starts == 1..(Len(s) - Len(pat) + 1)
  IN  IF \E k \in starts : OccursAt(s, pat, k)
      THEN CHOOSE k \in starts :
             OccursAt(s, pat, k) /\ \A j \in 1..(k - 1) : ~OccursAt(s, pat, j)
      ELSE 0

Includes(s, pat) == IndexOf(s, pat) > 0

\* s.split(pat)[0]
BeforeFirst(s, pat) ==
  IF Includes(s, pat) THEN SubSeq(s, 1, IndexOf(s, pat) - 1) ELSE s

\* s.split(c), c a single character
RECURSIVE Split(_, _)
Split(s, c) ==
  IF Includes(s, <<c>>)
  THEN <<BeforeFirst(s, <<c>>)>> \o Split(SubSeq(s, IndexOf(s, <<c>>) + 1, Len(s)), c)
  ELSE <<s>>

RECURSIVE Join(_, _)
Join(ls, c) ==
  IF ls = <<>> THEN <<>>
  ELSE IF Len(ls) = 1 THEN ls[1]
  ELSE ls[1] \o <<c>> \o Join(Tail(ls), c)

RECURSIVE MapTrim(_)
MapTrim(ls) == IF ls = <<>> THEN <<>> ELSE <<Trim(Head(ls))>> \o MapTrim(Tail(ls))

RECURSIVE FilterNonEmpty(_)
FilterNonEmpty(ls) ==
  IF ls = <<>> THEN <<>>
  ELSE IF Head(ls) = <<>> THEN FilterNonEmpty(Tail(ls))
  ELSE <<Head(ls)>> \o FilterNonEmpty(Tail(ls))

\* ------------------------------------------------------------------ parser
NoArticle == [isNull |-> TRUE]

HasText(post) == "message" \in DOMAIN post /\ post.message # <<>>

\* variant: the lines are not trimmed before the empty ones are dropped
LinesNoTrim(message) == FilterNonEmpty(Split(message, "\n"))

Lines(message) == FilterNonEmpty(MapTrim(Split(message, "\n")))

\* variant: the first sentence has to be longer than the minimum
HeadlineStrict(line) ==
  IF Includes(line, <<".">>) /\ Len(line) > HEADLINE_MAX
  THEN LET firstSentence == BeforeFirst(line, <<".">>)
       IN  IF Len(firstSentence) > SENTENCE_MIN
           THEN firstSentence \o <<".">>
           ELSE line
  ELSE line

Headline(line) ==
  IF Includes(line, <<".">>) /\ Len(line) > HEADLINE_MAX
  THEN LET firstSentence == BeforeFirst(line, <<".">>)
       IN  IF Len(firstSentence) >= SENTENCE_MIN
           THEN firstSentence \o <<".">>
           ELSE line
  ELSE line

\* variant: the separator is a run of 46 dashes
BodyLongMarker(lines) ==
  LET joined == Join(Tail(lines), "\n")
      marker == Rep("-", MARKER_LEN + 2)
  IN  Trim(IF Includes(joined, marker) THEN BeforeFirst(joined, marker) ELSE joined)

Body(lines) ==
  LET joined == Join(Tail(lines), "\n")
  IN  Trim(IF Includes(joined, Marker) THEN BeforeFirst(joined, Marker) ELSE joined)

parsePost(post) ==
  IF ~HasText(post) THEN NoArticle
  ELSE LET lines == Lines(post.message)
       IN  IF Len(lines) = 0 THEN NoArticle
           ELSE [isNull |-> FALSE,
                 fb_post_id |-> post.id,
                 headline |-> Headline(lines[1]),
                 body |-> Body(lines),
                 image_url |-> IF "full_picture" \in DOMAIN post /\ post.full_picture # ""
                               THEN post.full_picture ELSE NullStr,
                 published_at |-> post.created_time,
                 source_url |-> post.permalink_url]

\* ------------------------------------------------------ sync_meta helpers
DigitChars == <<"0", "1", "2", "3", "4", "5", "6", "7", "8", "9">>

IsDigit(c) == \E d \in 1..10 : DigitChars[d] = c

DigitValue(c) == (CHOOSE d \in 1..10 : DigitChars[d] = c) - 1

\* Number.prototype.toString() of a non-negative integer
RECURSIVE toString(_)
toString(n) ==
  IF n < 10 THEN <<DigitChars[n + 1]>>
  ELSE toString(n \div 10) \o <<DigitChars[(n % 10) + 1]>>

RECURSIVE DigitsValue(_, _)
DigitsValue(s, acc) ==
  IF s = <<>> \/ ~IsDigit(Head(s)) THEN acc
  ELSE DigitsValue(Tail(s), acc * 10 + DigitValue(Head(s)))

\* parseInt(s) || 0 : leading blanks are skipped, NaN and 0 both give 0
ParseIntOrZero(s) ==
  LET t == TrimStart(s)
  IN  IF t = <<>> \/ ~IsDigit(Head(t)) THEN 0 ELSE DigitsValue(t, 0)

SYNC_KEY == "last_fb_sync"

\* SELECT value FROM sync_meta WHERE key = 'last_fb_sync'
getLastSyncTime(meta) ==
  IF \E row \in meta : row.key = SYNC_KEY
  THEN ParseIntOrZero((CHOOSE row \in meta : row.key = SYNC_KEY).value)
  ELSE 0

\* variant: INSERT OR IGNORE, an existing row keeps its value
setLastSyncTimeIgnore(meta, timestamp) ==
  IF \E row \in meta : row.key = SYNC_KEY THEN meta
  ELSE meta \cup {[key |-> SYNC_KEY, value |-> toString(timestamp)]}

\* INSERT OR REPLACE INTO sync_meta (key, value) VALUES ('last_fb_sync', ?)
setLastSyncTime(meta, timestamp) ==
  {row \in meta : row.key # SYNC_KEY}
    \cup {[key |-> SYNC_KEY, value |-> toString(timestamp)]}

\* variant: the cooldown has to be exceeded
shouldSyncStrict(meta, time) == time - getLastSyncTime(meta) > SYNC_COOLDOWN

\* now - lastSync >= SYNC_COOLDOWN
shouldSync(meta, time) == time - getLastSyncTime(meta) >= SYNC_COOLDOWN

\* Math.round(x / 1000)
RoundSeconds(x) == (x + 500) \div 1000

\* --------------------------------------------------------- articles table
\* variant: hidden rows are left out of the snapshot
getExistingPostIdsVisible(rows) ==
  {rows[k].fb_post_id :
     k \in {j \in 1..Len(rows) : rows[j].source = "facebook" /\ rows[j].is_hidden = 0}}

\* SELECT fb_post_id FROM articles WHERE source = 'facebook'
getExistingPostIds(rows) ==
  {rows[k].fb_post_id : k \in {j \in 1..Len(rows) : rows[j].source = "facebook"}}

NewRow(rows, article, createdAt) ==
  [id |-> Len(rows) + 1,
   fb_post_id |-> article.fb_post_id,
   headline |-> article.headline,
   body |-> article.body,
   image_url |-> article.image_url,
   published_at |-> article.published_at,
   source_url |-> article.source_url,
   source |-> "facebook",
   is_modified |-> 0,
   is_hidden |-> 0,
   created_at |-> createdAt]

\* variant: fb_post_id without the UNIQUE constraint
InsertNoUnique(rows, article, createdAt) ==
  [rows |-> Append(rows, NewRow(rows, article, createdAt)), err |-> FALSE, changes |-> 1]

\* variant: INSERT OR REPLACE, a conflicting row is overwritten
InsertOrReplace(rows, article, createdAt) ==
  IF \E k \in 1..Len(rows) : rows[k].fb_post_id = article.fb_post_id
  THEN LET k == CHOOSE j \in 1..Len(rows) : rows[j].fb_post_id = article.fb_post_id
       IN  [rows |-> [rows EXCEPT ![k] = [NewRow(rows, article, createdAt) EXCEPT !.id = k]],
            err |-> FALSE, changes |-> 1]
  ELSE [rows |-> Append(rows, NewRow(rows, article, createdAt)),
        err |-> FALSE, changes |-> 1]

\* INSERT INTO articles ... : fb_post_id is UNIQUE, a conflict is an error
InsertArticle(rows, article, createdAt) ==
  IF \E k \in 1..Len(rows) : rows[k].fb_post_id = article.fb_post_id
  THEN [rows |-> rows, err |-> TRUE, changes |-> 0]
  ELSE [rows |-> Append(rows, NewRow(rows, article, createdAt)),
        err |-> FALSE, changes |-> 1]

StoredIds(rows) == {rows[k].fb_post_id : k \in 1..Len(rows)}

\* ------------------------------------------------------------ feed source
\* Items as the Graph API returns them: a post without text has no message
\* field, a post without a picture has no full_picture field.
PostA == [id |-> "A", message |-> <<"H", "i", ".", "\n", "y", "o">>,
          created_time |-> "t1", permalink_url |-> "pA"]
PostAEdited == [id |-> "A", message |-> <<"N", "e", "w">>, full_picture |-> "imgA",
                created_time |-> "t1", permalink_url |-> "pA"]
PostB == [id |-> "B", message |-> <<"B", "e", "e">>, full_picture |-> "imgB",
          created_time |-> "t2", permalink_url |-> "pB"]
PostC == [id |-> "C", message |-> <<" ", "C", "\n", "\n", "c", "c", " ">>,
          created_time |-> "t3", permalink_url |-> "pC"]
PostNoText == [id |-> "D", full_picture |-> "imgD",
               created_time |-> "t4", permalink_url |-> "pD"]
PostBNoText == [id |-> "B", created_time |-> "t2", permalink_url |-> "pB"]
PostBlank == [id |-> "E", message |-> <<" ", "\n", "\t">>,
              created_time |-> "t5", permalink_url |-> "pE"]

FeedABC == <<PostA, PostB, PostC>>
FeedEdited == <<PostAEdited, PostBNoText, PostNoText>>
FeedRepeat == <<PostC, PostBlank, PostC>>
FeedEmpty == <<>>

\* what one GET /{page}/posts?limit=25 may answer
FeedResponses == {FeedABC, FeedEdited, FeedRepeat, FeedEmpty}

\* ---------------------------------------------- inputs of the parser alone
\* every concatenation of at most n of the blocks
RECURSIVE Concats(_, _)
Concats(blocks, n) ==
  IF n = 0 THEN {<<>>}
  ELSE LET shorter == Concats(blocks, n - 1)
       IN  shorter \cup {c \o b : c \in shorter, b \in blocks}

\* first lines around the limits of the headline rule: 100 characters, a
\* first sentence of 20
HeadBlocks == {<<"a">>, Rep("a", SENTENCE_MIN - 1), Rep("a", HEADLINE_MAX - SENTENCE_MIN),
               <<".">>, <<" ">>}

\* text after a line break, with runs of dashes around the separator length
BodyBlocks == {<<"a">>, <<" ">>, <<"\n">>, <<"-">>, Rep("-", MARKER_LEN - 1)}

Messages ==
  {h \o t : h \in Concats(HeadBlocks, MaxHeadBlocks), t \in {<<>>, <<"\n", "a">>}}
    \cup {h \o <<"\n">> \o b : h \in {<<>>, <<"a">>}, b \in Concats(BodyBlocks, MaxBodyBlocks)}

PostWith(message) ==
  [id |-> "P", message |-> message, created_time |-> "t9", permalink_url |-> "pP"]

ParsePosts == {PostWith(m) : m \in Messages} \cup {PostNoText}

\* every post a Feed Source response hands to the loop
FeedPosts == UNION {{feed[k] : k \in 1..Len(feed)} : feed \in FeedResponses} \cup ParsePosts

\* const article = parsePost(post), post by post
Parsed == [post \in FeedPosts |-> parsePost(post)]

\* ----------------------------------------------------------- stored rows
RowA == [id |-> 1, fb_post_id |-> "A", headline |-> <<"E", "d">>, body |-> <<"x">>,
         image_url |-> NullStr, published_at |-> "t1", source_url |-> "pA",
         source |-> "facebook", is_modified |-> 1, is_hidden |-> 0, created_at |-> 0]
RowB == [id |-> 2, fb_post_id |-> "B", headline |-> <<"B", "e", "e">>, body |-> <<>>,
         image_url |-> "imgB", published_at |-> "t2", source_url |-> "pB",
         source |-> "facebook", is_modified |-> 0, is_hidden |-> 1, created_at |-> 0]
RowAdmin == [id |-> 3, fb_post_id |-> "admin_1", headline |-> <<"O", "p">>, body |-> <<>>,
             image_url |-> NullStr, published_at |-> "t0", source_url |-> NullStr,
             source |-> "admin", is_modified |-> 1, is_hidden |-> 0, created_at |-> 0]

InitialStores == {<<>>, <<RowA, RowB, RowAdmin>>}

InitialSyncMeta == {{}, {[key |-> SYNC_KEY, value |-> toString(StartTime)]}}

\* ------------------------------------------------------------------ state
VARIABLES
  now,              \* Date.now()
  envConfigured,    \* FB_PAGE_ID and FB_PAGE_TOKEN are both set
  sync_meta,        \* rows of table sync_meta
  articles,         \* rows of table articles, in rowid order
  lazySyncPromise,  \* NoPromise, or the caller whose run the slot refers to
  inv,              \* per caller: the invocation in progress
  insertLog,        \* fb_post_ids counted as inserted, in order
  nfDoneAt,         \* time the latest non-forced run that fetched completed
  started,          \* number of invocations made so far
  prev,             \* the forced run that returned last, when noted
  initialSyncPromise, \* server.js: NoPromise, Resolved, or the caller whose run it chains
  lastSyncAt        \* server.js: time of the last successful sync the server saw

vars == <<now, envConfigured, sync_meta, articles, lazySyncPromise, inv,
          insertLog, nfDoneAt, started, prev, initialSyncPromise, lastSyncAt>>

NoResult == [kind |-> "none"]
NoResponse == [status |-> 0, success |-> FALSE]
NoPrev == [ok |-> FALSE, posts |-> <<>>, ids |-> {}]
Never == 0 - 1

IdleInv ==
  [op |-> "none", force |-> FALSE, pc |-> "idle",
   existingIds |-> {}, posts |-> <<>>, idx |-> 0,
   article |-> NoArticle, stamp |-> 0,
   inserted |-> 0, skippedExisting |-> 0, skippedNoContent |-> 0,
   result |-> NoResult, response |-> NoResponse,
   fetches |-> 0, tsWrites |-> 0, attempts |-> 0,
   early |-> FALSE,
   insertedIds |-> {}, knownAtStart |-> {}, limit |-> 0,
   readFailed |-> FALSE, tsFailed |-> FALSE]

RunPcs == {"ids", "fetch", "insert", "setts"}

InRun(i) == inv[i].pc \in RunPcs

Active(i) == inv[i].pc \notin {"idle", "done"}

\* a run that was subject to the cooldown: syncPosts(false) or lazySync
NonForced(rec) == rec.op = "lazy" \/ (rec.op \in {"post", "initial"} /\ ~rec.force)

Init ==
  /\ now = StartTime
  /\ envConfigured = TRUE
  /\ sync_meta \in InitialSyncMeta
  /\ articles \in InitialStores
  /\ lazySyncPromise = NoPromise
  /\ inv = [i \in Callers |-> IdleInv]
  /\ insertLog = <<>>
  /\ nfDoneAt = Never
  /\ started = 0
  /\ prev = NoPrev
  /\ initialSyncPromise = NoPromise
  /\ lastSyncAt = 0

\* ------------------------------------------------------- promise settling
\* variant: lazySync without its .catch, a rejection stays a rejection
SettleNoCatch(rec, result) ==
  [rec EXCEPT
     !.pc = "done",
     !.existingIds = {}, !.posts = <<>>, !.idx = 0, !.article = NoArticle, !.stamp = 0,
     !.insertedIds = {}, !.knownAtStart = {},
     !.result = result,
     !.response = IF rec.op = "post"
                  THEN IF result.kind = "rejected"
                       THEN [status |-> HTTP_ERROR, success |-> FALSE]
                       ELSE [status |-> HTTP_OK, success |-> TRUE]
                  ELSE NoResponse]

\* The promise of the invocation settles.  POST /api/sync answers 200 or 500;
\* the chain lazySync builds turns a rejection into {error}; the chain
\* ensureInitialSync builds resolves with undefined either way.
Settle(rec, result) ==
  [rec EXCEPT
     !.pc = "done",
     !.existingIds = {}, !.posts = <<>>, !.idx = 0, !.article = NoArticle, !.stamp = 0,
     !.insertedIds = {}, !.knownAtStart = {},
     !.result = IF rec.op = "lazy" /\ result.kind = "rejected"
                THEN [kind |-> "error", error |-> result.error]
                ELSE IF rec.op = "initial"
                THEN [kind |-> "undefined"]
                ELSE result,
     !.response = IF rec.op = "post"
                  THEN IF result.kind = "rejected"
                       THEN [status |-> HTTP_ERROR, success |-> FALSE]
                       ELSE [status |-> HTTP_OK, success |-> TRUE]
                  ELSE NoResponse]

\* ensureInitialSync: .then((result) => { lastSyncAt = Date.now() })
LastSyncAtAfter(rec, time, last) == IF rec.op = "initial" THEN time ELSE last

\* variant: the slot is left as it is when the run ends
SlotAfterRunKeeps(rec, slot) == slot

\* .finally(() => { lazySyncPromise = null })
SlotAfterRun(rec, slot) == IF rec.op = "lazy" THEN NoPromise ELSE slot

\* syncPosts after the cooldown gate, up to `await getExistingPostIds()`
StartRun(rec, configured) ==
  IF ~configured
  THEN Settle(rec, [kind |-> "rejected", error |-> "Missing FB_PAGE_ID or FB_PAGE_TOKEN"])
  ELSE [rec EXCEPT !.pc = "ids"]

\* ------------------------------------------------------------ item loop
\* variant: the parser is consulted before the known-id check
RECURSIVE ScanParseFirst(_, _, _, _, _)
ScanParseFirst(posts, ids, k, skippedExisting, skippedNoContent) ==
  IF k > Len(posts)
  THEN [idx |-> k, skippedExisting |-> skippedExisting, skippedNoContent |-> skippedNoContent]
  ELSE IF Parsed[posts[k]] = NoArticle
  THEN ScanParseFirst(posts, ids, k + 1, skippedExisting, skippedNoContent + 1)
  ELSE IF posts[k].id \in ids
  THEN ScanParseFirst(posts, ids, k + 1, skippedExisting + 1, skippedNoContent)
  ELSE [idx |-> k, skippedExisting |-> skippedExisting, skippedNoContent |-> skippedNoContent]

\* for (const post of posts): the synchronous part, up to the next item that
\* needs an insert
RECURSIVE Scan(_, _, _, _, _)
Scan(posts, ids, k, skippedExisting, skippedNoContent) ==
  IF k > Len(posts)
  THEN [idx |-> k, skippedExisting |-> skippedExisting, skippedNoContent |-> skippedNoContent]
  ELSE IF posts[k].id \in ids
  THEN Scan(posts, ids, k + 1, skippedExisting + 1, skippedNoContent)
  ELSE IF Parsed[posts[k]] = NoArticle
  THEN Scan(posts, ids, k + 1, skippedExisting, skippedNoContent + 1)
  ELSE [idx |-> k, skippedExisting |-> skippedExisting, skippedNoContent |-> skippedNoContent]

\* variant: the loop is left after the first insert
ContinueBreaks(rec, k, time) ==
  LET s == IF k > 1
           THEN [idx |-> Len(rec.posts) + 1, skippedExisting |-> rec.skippedExisting,
                 skippedNoContent |-> rec.skippedNoContent]
           ELSE Scan(rec.posts, rec.existingIds, k, rec.skippedExisting, rec.skippedNoContent)
      r == [rec EXCEPT !.idx = s.idx,
                       !.skippedExisting = s.skippedExisting,
                       !.skippedNoContent = s.skippedNoContent,
                       !.stamp = time]
  IN  IF s.idx <= Len(rec.posts)
      THEN [r EXCEPT !.pc = "insert", !.article = Parsed[rec.posts[s.idx]]]
      ELSE [r EXCEPT !.pc = "setts", !.article = NoArticle]

\* run the loop from item k; issue the next INSERT, or setLastSyncTime(Date.now())
Continue(rec, k, time) ==
  LET s == Scan(rec.posts, rec.existingIds, k, rec.skippedExisting, rec.skippedNoContent)
      r == [rec EXCEPT !.idx = s.idx,
                       !.skippedExisting = s.skippedExisting,
                       !.skippedNoContent = s.skippedNoContent,
                       !.stamp = time]
  IN  IF s.idx <= Len(rec.posts)
      THEN [r EXCEPT !.pc = "insert", !.article = Parsed[rec.posts[s.idx]]]
      ELSE [r EXCEPT !.pc = "setts", !.article = NoArticle]

\* ---------------------------------------------------------------- actions
\* POST /api/sync: the handler calls syncPosts(true); the handler of the
\* SQLite server calls syncPosts(), force = false
syncPosts(i, force) ==
  /\ inv[i].pc = "idle"
  /\ started < MaxCalls
  /\ started' = started + 1
  /\ LET rec == [IdleInv EXCEPT !.op = "post", !.force = force, !.knownAtStart = prev.ids]
     IN  inv' = [inv EXCEPT ![i] = IF force THEN StartRun(rec, envConfigured)
                                   ELSE [rec EXCEPT !.pc = "cooldown"]]
  /\ UNCHANGED <<now, envConfigured, sync_meta, articles, lazySyncPromise,
                 insertLog, nfDoneAt, prev,
                 initialSyncPromise, lastSyncAt>>

PostSync(i) == \E force \in BOOLEAN : syncPosts(i, force)

\* syncPosts(false): `await shouldSync()` completes
CooldownChecked(i) ==
  /\ inv[i].pc = "cooldown"
  /\ inv' = [inv EXCEPT ![i] = IF shouldSync(sync_meta, now)
                               THEN StartRun(inv[i], envConfigured)
                               ELSE [inv[i] EXCEPT !.pc = "wait"]]
  /\ UNCHANGED <<now, envConfigured, sync_meta, articles, lazySyncPromise,
                 insertLog, nfDoneAt, started, prev,
                 initialSyncPromise, lastSyncAt>>

\* syncPosts(false), cooldown active: `await getLastSyncTime()` completes and
\* the skipped result is returned
SkippedReturned(i) ==
  /\ inv[i].pc = "wait"
  /\ LET waitTime == RoundSeconds(SYNC_COOLDOWN - (now - getLastSyncTime(sync_meta)))
     IN  inv' = [inv EXCEPT ![i] =
                   Settle(inv[i], [kind |-> "skipped", skipped |-> TRUE, waitTime |-> waitTime])]
  /\ lastSyncAt' = LastSyncAtAfter(inv[i], now, lastSyncAt)
  /\ UNCHANGED <<now, envConfigured, sync_meta, articles, lazySyncPromise,
                 insertLog, nfDoneAt, started, prev,
                 initialSyncPromise>>

\* a non-forced run issues its fetch although another non-forced run has
\* fetched and not completed, or completed less than SYNC_COOLDOWN ago
FetchesEarly(i) ==
  /\ NonForced(inv[i])
  /\ \/ nfDoneAt # Never /\ now - nfDoneAt < SYNC_COOLDOWN
     \/ \E j \in Callers \ {i} : NonForced(inv[j]) /\ InRun(j) /\ inv[j].fetches > 0

\* `await getExistingPostIds()` completes; axios.get is issued
IdsLoaded(i) ==
  /\ inv[i].pc = "ids"
  /\ inv' = [inv EXCEPT ![i] = [inv[i] EXCEPT !.pc = "fetch",
                                              !.existingIds = getExistingPostIds(articles),
                                              !.fetches = @ + 1,
                                              !.limit = PAGE_LIMIT,
                                              !.early = FetchesEarly(i)]]
  /\ UNCHANGED <<now, envConfigured, sync_meta, articles, lazySyncPromise,
                 insertLog, nfDoneAt, started, prev,
                 initialSyncPromise, lastSyncAt>>

\* axios.get resolves with a page of posts; the loop starts
FetchOk(i) ==
  /\ inv[i].pc = "fetch"
  /\ \E feed \in FeedResponses :
       inv' = [inv EXCEPT ![i] = Continue([inv[i] EXCEPT !.posts = feed], 1, now)]
  /\ UNCHANGED <<now, envConfigured, sync_meta, articles, lazySyncPromise,
                 insertLog, nfDoneAt, started, prev,
                 initialSyncPromise, lastSyncAt>>

\* variant: a failed request is issued once more before the run gives up
FetchFailsRetries(i) ==
  /\ inv[i].pc = "fetch"
  /\ IF inv[i].fetches < 2
     THEN /\ inv' = [inv EXCEPT ![i] = [inv[i] EXCEPT !.fetches = @ + 1]]
          /\ UNCHANGED lazySyncPromise
     ELSE /\ inv' = [inv EXCEPT ![i] =
                      Settle(inv[i], [kind |-> "rejected", error |-> "Request failed"])]
          /\ lazySyncPromise' = SlotAfterRun(inv[i], lazySyncPromise)
  /\ UNCHANGED <<now, envConfigured, sync_meta, articles, insertLog, nfDoneAt,
                 started, prev, initialSyncPromise, lastSyncAt>>

\* variant: the failed run stamps the sync time all the same
FetchFailsStamps(i) ==
  /\ inv[i].pc = "fetch"
  /\ inv' = [inv EXCEPT ![i] =
               Settle(inv[i], [kind |-> "rejected", error |-> "Request failed"])]
  /\ lazySyncPromise' = SlotAfterRun(inv[i], lazySyncPromise)
  /\ sync_meta' = setLastSyncTime(sync_meta, now)
  /\ UNCHANGED <<now, envConfigured, articles, insertLog, nfDoneAt, started, prev,
                 initialSyncPromise, lastSyncAt>>

\* axios.get rejects: syncPosts rejects
FetchFails(i) ==
  /\ inv[i].pc = "fetch"
  /\ inv' = [inv EXCEPT ![i] =
               Settle(inv[i], [kind |-> "rejected", error |-> "Request failed"])]
  /\ lazySyncPromise' = SlotAfterRun(inv[i], lazySyncPromise)
  /\ UNCHANGED <<now, envConfigured, sync_meta, articles, insertLog, nfDoneAt,
                 started, prev,
                 initialSyncPromise, lastSyncAt>>

\* the outcome of the INSERT of caller i's current item
InsertOutcome(i) == InsertArticle(articles, inv[i].article, inv[i].stamp)

\* resolve({ inserted: this.changes > 0 }), or resolve({ inserted: false })
InsertedRow(i) == ~InsertOutcome(i).err /\ InsertOutcome(i).changes > 0

\* the INSERT of the current item completes; the loop goes on
InsertDone(i) ==
  /\ inv[i].pc = "insert"
  /\ articles' = InsertOutcome(i).rows
  /\ insertLog' = IF InsertedRow(i) THEN Append(insertLog, inv[i].article.fb_post_id)
                  ELSE insertLog
  /\ inv' = [inv EXCEPT ![i] =
               Continue([inv[i] EXCEPT !.inserted = IF InsertedRow(i) THEN @ + 1 ELSE @,
                                       !.insertedIds = IF InsertedRow(i)
                                                       THEN @ \cup {inv[i].article.fb_post_id}
                                                       ELSE @,
                                       !.attempts = @ + 1],
                        inv[i].idx + 1, now)]
  /\ UNCHANGED <<now, envConfigured, sync_meta, lazySyncPromise, nfDoneAt,
                 started, prev,
                 initialSyncPromise, lastSyncAt>>

\* setLastSyncTime completes; syncPosts returns its result
WriteTimestamp(i) ==
  /\ inv[i].pc = "setts"
  /\ sync_meta' = setLastSyncTime(sync_meta, inv[i].stamp)
  /\ inv' = [inv EXCEPT ![i] =
               Settle([inv[i] EXCEPT !.tsWrites = @ + 1],
                      [kind |-> "ok",
                       inserted |-> inv[i].inserted,
                       skippedExisting |-> inv[i].skippedExisting,
                       skippedNoContent |-> inv[i].skippedNoContent,
                       total |-> Len(inv[i].posts),
                       timestamp |-> now])]
  /\ lazySyncPromise' = SlotAfterRun(inv[i], lazySyncPromise)
  /\ nfDoneAt' = IF NonForced(inv[i]) THEN now ELSE nfDoneAt
  /\ lastSyncAt' = LastSyncAtAfter(inv[i], now, lastSyncAt)
  /\ UNCHANGED <<now, envConfigured, articles, insertLog, started,
                 initialSyncPromise>>

TimestampWritten(i) == WriteTimestamp(i) /\ UNCHANGED prev

\* GET /api/articles calls lazySync(): return the outstanding promise, or
\* start `await shouldSync()`
LazySync(i) ==
  /\ inv[i].pc = "idle"
  /\ started < MaxCalls
  /\ started' = started + 1
  /\ LET rec == [IdleInv EXCEPT !.op = "lazy"]
     IN  inv' = [inv EXCEPT ![i] =
                   IF lazySyncPromise # NoPromise
                   THEN [rec EXCEPT !.op = "join", !.pc = "done",
                                    !.result = [kind |-> "joined", promise |-> lazySyncPromise]]
                   ELSE [rec EXCEPT !.pc = "lazyCheck"]]
  /\ UNCHANGED <<now, envConfigured, sync_meta, articles, lazySyncPromise,
                 insertLog, nfDoneAt, prev,
                 initialSyncPromise, lastSyncAt>>

\* variant: the slot is taken whether or not the sync is due
LazyCheckedHolds(i) ==
  /\ inv[i].pc = "lazyCheck"
  /\ IF shouldSync(sync_meta, now)
     THEN /\ inv' = [inv EXCEPT ![i] = StartRun([inv[i] EXCEPT !.force = TRUE], envConfigured)]
          /\ lazySyncPromise' = IF envConfigured THEN i ELSE NoPromise
     ELSE /\ inv' = [inv EXCEPT ![i] = [inv[i] EXCEPT !.op = "join", !.pc = "done",
                                                     !.result = [kind |-> "null"]]]
          /\ lazySyncPromise' = i
  /\ UNCHANGED <<now, envConfigured, sync_meta, articles, insertLog, nfDoneAt,
                 started, prev, initialSyncPromise, lastSyncAt>>

\* lazySync: `await shouldSync()` completes; return null, or store the promise
\* of syncPosts(true) in the slot
LazyChecked(i) ==
  /\ inv[i].pc = "lazyCheck"
  /\ IF shouldSync(sync_meta, now)
     THEN /\ inv' = [inv EXCEPT ![i] = StartRun([inv[i] EXCEPT !.force = TRUE], envConfigured)]
          /\ lazySyncPromise' = IF envConfigured THEN i ELSE NoPromise
     ELSE /\ inv' = [inv EXCEPT ![i] = [inv[i] EXCEPT !.op = "join", !.pc = "done",
                                                     !.result = [kind |-> "null"]]]
          /\ UNCHANGED lazySyncPromise
  /\ UNCHANGED <<now, envConfigured, sync_meta, articles, insertLog, nfDoneAt,
                 started, prev,
                 initialSyncPromise, lastSyncAt>>

\* the caller is done with the settled invocation
Return(i) ==
  /\ inv[i].pc = "done"
  /\ inv' = [inv EXCEPT ![i] = IdleInv]
  /\ UNCHANGED <<now, envConfigured, sync_meta, articles, lazySyncPromise,
                 insertLog, nfDoneAt, started, prev,
                 initialSyncPromise, lastSyncAt>>

\* wall-clock time passes
Tick ==
  /\ now < EndTime
  /\ now' = now + TickMs
  /\ UNCHANGED <<envConfigured, sync_meta, articles, lazySyncPromise, inv,
                 insertLog, nfDoneAt, started, prev,
                 initialSyncPromise, lastSyncAt>>

Next ==
  \/ Tick
  \/ \E i \in Callers :
       \/ PostSync(i)
       \/ LazySync(i)
       \/ CooldownChecked(i)
       \/ SkippedReturned(i)
       \/ LazyChecked(i)
       \/ IdsLoaded(i)
       \/ FetchOk(i)
       \/ FetchFails(i)
       \/ InsertDone(i)
       \/ TimestampWritten(i)
       \/ Return(i)

Spec == Init /\ [][Next]_vars

\* ------------------------------------------- forced runs, one after another
Quiet == \A j \in Callers : inv[j].pc = "idle"

ForcedAlone(i) == Quiet /\ syncPosts(i, TRUE)

\* as TimestampWritten, and the run is remembered for the next one
TimestampWrittenNoted(i) ==
  /\ WriteTimestamp(i)
  /\ prev' = [ok |-> TRUE, posts |-> inv[i].posts, ids |-> StoredIds(articles)]

NextSeq ==
  \/ Tick
  \/ \E i \in Callers :
       \/ ForcedAlone(i)
       \/ IdsLoaded(i)
       \/ FetchOk(i)
       \/ FetchFails(i)
       \/ InsertDone(i)
       \/ TimestampWrittenNoted(i)
       \/ Return(i)

SpecSeq == Init /\ [][NextSeq]_vars

\* ------------------------------------------------- the parser on its inputs
\* the first sync of an empty database
InitParse ==
  /\ now = StartTime
  /\ envConfigured = TRUE
  /\ sync_meta = {}
  /\ articles = <<>>
  /\ lazySyncPromise = NoPromise
  /\ inv = [i \in Callers |-> IdleInv]
  /\ insertLog = <<>>
  /\ nfDoneAt = Never
  /\ started = 0
  /\ prev = NoPrev
  /\ initialSyncPromise = NoPromise
  /\ lastSyncAt = 0

FirstSync(i) == started = 0 /\ syncPosts(i, TRUE)

\* axios.get resolves with a page of one post
FetchOne(i) ==
  /\ inv[i].pc = "fetch"
  /\ \E post \in ParsePosts :
       inv' = [inv EXCEPT ![i] = Continue([inv[i] EXCEPT !.posts = <<post>>], 1, now)]
  /\ UNCHANGED <<now, envConfigured, sync_meta, articles, lazySyncPromise,
                 insertLog, nfDoneAt, started, prev,
                 initialSyncPromise, lastSyncAt>>

NextParse ==
  \E i \in Callers :
    \/ FirstSync(i)
    \/ IdsLoaded(i)
    \/ FetchOne(i)
    \/ InsertDone(i)
    \/ TimestampWritten(i)
    \/ Return(i)

SpecParse == InitParse /\ [][NextParse]_vars

\* ------------------------------------- the database and the environment fail
\* the process may have been started without FB_PAGE_ID or FB_PAGE_TOKEN
InitFaults ==
  /\ now = StartTime
  /\ envConfigured \in BOOLEAN
  /\ sync_meta \in InitialSyncMeta
  /\ articles \in InitialStores
  /\ lazySyncPromise = NoPromise
  /\ inv = [i \in Callers |-> IdleInv]
  /\ insertLog = <<>>
  /\ nfDoneAt = Never
  /\ started = 0
  /\ prev = NoPrev
  /\ initialSyncPromise = NoPromise
  /\ lastSyncAt = 0

\* db.all calls back with an error: getExistingPostIds rejects, and with it
\* syncPosts
IdsFail(i) ==
  /\ inv[i].pc = "ids"
  /\ inv' = [inv EXCEPT ![i] = Settle(inv[i], [kind |-> "rejected", error |-> "SQLITE_ERROR"])]
  /\ lazySyncPromise' = SlotAfterRun(inv[i], lazySyncPromise)
  /\ UNCHANGED <<now, envConfigured, sync_meta, articles, insertLog, nfDoneAt,
                 started, prev,
                 initialSyncPromise, lastSyncAt>>

\* the INSERT calls back with an error that is no conflict: {inserted: false},
\* and the loop goes on
InsertFails(i) ==
  /\ inv[i].pc = "insert"
  /\ inv' = [inv EXCEPT ![i] =
               Continue([inv[i] EXCEPT !.attempts = @ + 1], inv[i].idx + 1, now)]
  /\ UNCHANGED <<now, envConfigured, sync_meta, articles, lazySyncPromise, insertLog,
                 nfDoneAt, started, prev,
                 initialSyncPromise, lastSyncAt>>

\* getLastSyncTime: the SELECT calls back with an error and no row, resolve(0)
FailedRead == {}

\* syncPosts(false): the read under `await shouldSync()` fails
CooldownReadFails(i) ==
  /\ inv[i].pc = "cooldown"
  /\ LET rec == [inv[i] EXCEPT !.readFailed = TRUE]
     IN  inv' = [inv EXCEPT ![i] = IF shouldSync(FailedRead, now)
                                   THEN StartRun(rec, envConfigured)
                                   ELSE [rec EXCEPT !.pc = "wait"]]
  /\ UNCHANGED <<now, envConfigured, sync_meta, articles, lazySyncPromise,
                 insertLog, nfDoneAt, started, prev, initialSyncPromise, lastSyncAt>>

\* syncPosts(false), cooldown active: the read for the wait time fails
SkippedReadFails(i) ==
  /\ inv[i].pc = "wait"
  /\ LET waitTime == RoundSeconds(SYNC_COOLDOWN - (now - getLastSyncTime(FailedRead)))
     IN  inv' = [inv EXCEPT ![i] =
                   Settle([inv[i] EXCEPT !.readFailed = TRUE],
                          [kind |-> "skipped", skipped |-> TRUE, waitTime |-> waitTime])]
  /\ lastSyncAt' = LastSyncAtAfter(inv[i], now, lastSyncAt)
  /\ UNCHANGED <<now, envConfigured, sync_meta, articles, lazySyncPromise,
                 insertLog, nfDoneAt, started, prev, initialSyncPromise>>

\* lazySync: the read under `await shouldSync()` fails
LazyReadFails(i) ==
  /\ inv[i].pc = "lazyCheck"
  /\ LET rec == [inv[i] EXCEPT !.readFailed = TRUE]
     IN  IF shouldSync(FailedRead, now)
         THEN /\ inv' = [inv EXCEPT ![i] = StartRun([rec EXCEPT !.force = TRUE], envConfigured)]
              /\ lazySyncPromise' = IF envConfigured THEN i ELSE NoPromise
         ELSE /\ inv' = [inv EXCEPT ![i] = [rec EXCEPT !.op = "join", !.pc = "done",
                                                       !.result = [kind |-> "null"]]]
              /\ UNCHANGED lazySyncPromise
  /\ UNCHANGED <<now, envConfigured, sync_meta, articles, insertLog, nfDoneAt,
                 started, prev, initialSyncPromise, lastSyncAt>>

\* variant: a failed write of the timestamp rejects the run
TimestampWriteRejects(i) ==
  /\ inv[i].pc = "setts"
  /\ inv' = [inv EXCEPT ![i] =
               Settle([inv[i] EXCEPT !.tsFailed = TRUE],
                      [kind |-> "rejected", error |-> "SQLITE_ERROR"])]
  /\ lazySyncPromise' = SlotAfterRun(inv[i], lazySyncPromise)
  /\ UNCHANGED <<now, envConfigured, sync_meta, articles, insertLog, nfDoneAt,
                 started, prev, initialSyncPromise, lastSyncAt>>

\* setLastSyncTime: the INSERT OR REPLACE calls back with an error, which the
\* callback drops; syncPosts returns its result
TimestampWriteFails(i) ==
  /\ inv[i].pc = "setts"
  /\ inv' = [inv EXCEPT ![i] =
               Settle([inv[i] EXCEPT !.tsFailed = TRUE],
                      [kind |-> "ok",
                       inserted |-> inv[i].inserted,
                       skippedExisting |-> inv[i].skippedExisting,
                       skippedNoContent |-> inv[i].skippedNoContent,
                       total |-> Len(inv[i].posts),
                       timestamp |-> now])]
  /\ lazySyncPromise' = SlotAfterRun(inv[i], lazySyncPromise)
  /\ nfDoneAt' = IF NonForced(inv[i]) THEN now ELSE nfDoneAt
  /\ lastSyncAt' = LastSyncAtAfter(inv[i], now, lastSyncAt)
  /\ UNCHANGED <<now, envConfigured, sync_meta, articles, insertLog, started, prev,
                 initialSyncPromise>>

\* the calls and completions of Next and the failing ones, at one instant
NextFaults ==
  \E i \in Callers :
    \/ PostSync(i)
    \/ LazySync(i)
    \/ CooldownChecked(i)
    \/ SkippedReturned(i)
    \/ LazyChecked(i)
    \/ IdsLoaded(i)
    \/ IdsFail(i)
    \/ FetchOk(i)
    \/ FetchFails(i)
    \/ InsertDone(i)
    \/ InsertFails(i)
    \/ TimestampWritten(i)
    \/ CooldownReadFails(i)
    \/ SkippedReadFails(i)
    \/ LazyReadFails(i)
    \/ TimestampWriteFails(i)
    \/ Return(i)

SpecFaults == InitFaults /\ [][NextFaults]_vars

\* ------------------------------------------ sync runs and the admin's edits
\* PUT /api/admin/articles/:id: headline, body and image_url are replaced and
\* the row is marked as modified
EditArticle(k) ==
  /\ k \in 1..Len(articles)
  /\ articles' = [articles EXCEPT ![k] = [@ EXCEPT !.headline = <<"E", "d">>,
                                                  !.body = <<"x">>,
                                                  !.image_url = NullStr,
                                                  !.is_modified = 1]]
  /\ UNCHANGED <<now, envConfigured, sync_meta, lazySyncPromise, inv, insertLog,
                 nfDoneAt, started, prev, initialSyncPromise, lastSyncAt>>

\* PATCH /api/admin/articles/:id/visibility: the row is hidden or shown again
SetVisibility(k, hidden) ==
  /\ k \in 1..Len(articles)
  /\ articles' = [articles EXCEPT ![k] = [@ EXCEPT !.is_hidden = hidden, !.is_modified = 1]]
  /\ UNCHANGED <<now, envConfigured, sync_meta, lazySyncPromise, inv, insertLog,
                 nfDoneAt, started, prev, initialSyncPromise, lastSyncAt>>

\* as TimestampWritten, and what the run knew and inserted is remembered
TimestampWrittenKnown(i) ==
  /\ WriteTimestamp(i)
  /\ prev' = [ok |-> TRUE, posts |-> <<>>,
              ids |-> prev.ids \cup inv[i].existingIds \cup inv[i].insertedIds]

\* forced runs, overlapping or not, and edits at any moment
NextEdits ==
  \/ \E i \in Callers :
       \/ syncPosts(i, TRUE)
       \/ IdsLoaded(i)
       \/ FetchOk(i)
       \/ FetchFails(i)
       \/ InsertDone(i)
       \/ TimestampWrittenKnown(i)
       \/ Return(i)
  \/ \E k \in 1..Len(articles) :
       \/ EditArticle(k)
       \/ \E hidden \in {0, 1} : SetVisibility(k, hidden)

SpecEdits == Init /\ [][NextEdits]_vars

\* ------------------------------------- the initial sync of the SQLite server
\* initialSyncPromise = Promise.resolve()
Resolved == NumCallers + 1

\* GET /api/articles calls ensureInitialSync(): return the stored promise, or
\* issue the COUNT(*) query
ensureInitialSync(i) ==
  /\ inv[i].pc = "idle"
  /\ started < MaxCalls
  /\ started' = started + 1
  /\ inv' = [inv EXCEPT ![i] =
               IF initialSyncPromise # NoPromise
               THEN [IdleInv EXCEPT !.op = "initialJoin", !.pc = "done",
                                    !.result = [kind |-> "joined", promise |-> initialSyncPromise]]
               ELSE [IdleInv EXCEPT !.op = "initial", !.pc = "count"]]
  /\ UNCHANGED <<now, envConfigured, sync_meta, articles, lazySyncPromise,
                 insertLog, nfDoneAt, prev, initialSyncPromise, lastSyncAt>>

\* the COUNT(*) query completes: on an empty table syncPosts() is called and
\* its chain stored, otherwise a resolved promise is stored
CountChecked(i) ==
  /\ inv[i].pc = "count"
  /\ IF Len(articles) = 0
     THEN /\ inv' = [inv EXCEPT ![i] = [inv[i] EXCEPT !.pc = "cooldown"]]
          /\ initialSyncPromise' = i
          /\ UNCHANGED lastSyncAt
     ELSE /\ inv' = [inv EXCEPT ![i] = [inv[i] EXCEPT !.op = "initialJoin", !.pc = "done",
                                                     !.result = [kind |-> "joined",
                                                                 promise |-> Resolved]]]
          /\ initialSyncPromise' = Resolved
          /\ lastSyncAt' = now
  /\ UNCHANGED <<now, envConfigured, sync_meta, articles, lazySyncPromise,
                 insertLog, nfDoneAt, started, prev>>

NextInitial ==
  \/ Tick
  \/ \E i \in Callers :
       \/ ensureInitialSync(i)
       \/ CountChecked(i)
       \/ CooldownChecked(i)
       \/ SkippedReturned(i)
       \/ IdsLoaded(i)
       \/ FetchOk(i)
       \/ FetchFails(i)
       \/ InsertDone(i)
       \/ TimestampWritten(i)
       \/ Return(i)

SpecInitial == Init /\ [][NextInitial]_vars

\* ------------------------------------ lazy triggers whose calls are answered
\* the database or the Feed Source answers the call caller i is waiting for
Responds(i) ==
  \/ LazyChecked(i)
  \/ IdsLoaded(i)
  \/ FetchOk(i)
  \/ FetchFails(i)
  \/ InsertDone(i)
  \/ TimestampWritten(i)

\* lazySync calls and the answers to their calls, as time passes
NextLive ==
  \/ Tick
  \/ \E i \in Callers :
       \/ LazySync(i)
       \/ Responds(i)
       \/ Return(i)

\* every outstanding call is answered in the end
SpecLive == Init /\ [][NextLive]_vars /\ \A i \in Callers : WF_vars(Responds(i))

TypeOK ==
  /\ now \in Times
  /\ lazySyncPromise \in {NoPromise} \cup Callers
  /\ started \in 0..MaxCalls
  /\ \A i \in Callers :
       inv[i].pc \in {"idle", "cooldown", "wait", "lazyCheck", "count", "done"} \cup RunPcs
  /\ initialSyncPromise \in {NoPromise, Resolved} \cup Callers
  /\ lastSyncAt \in {0} \cup Times

\* ------------------------------------------------------------------ claims
\* C1: of two syncPosts invocations that overlap (both started, neither
\* returned) at most one issues a Feed Source fetch.
C1_SingleFlight ==
  \A i, j \in Callers :
    (i # j /\ Active(i) /\ Active(j)) => ~(inv[i].fetches > 0 /\ inv[j].fetches > 0)

\* C2: at most one run started by lazySync is in progress at any time.
C2_LazySingleFlight ==
  Cardinality({i \in Callers : inv[i].op = "lazy" /\ InRun(i)}) <= 1

C4_MinInterval == \A i \in Callers : ~inv[i].early

\* C5: a forced run that follows a completed forced run and gets the same feed
\* response inserts nothing, and the stored identifiers are those the first
\* run left.
C5_Idempotent ==
  \A i \in Callers :
    (inv[i].pc = "setts" /\ prev.ok /\ prev.posts = inv[i].posts)
      => inv[i].inserted = 0 /\ StoredIds(articles) = prev.ids

\* the second of two forced runs with the same non-empty response has finished its loop
C5_Witness ==
  \E i \in Callers :
    /\ inv[i].pc = "setts" /\ prev.ok /\ prev.posts = inv[i].posts
    /\ inv[i].posts = FeedABC /\ "C" \in prev.ids

\* C6: no step of an invocation changes or removes a row that is stored.
C6_InsertOnly ==
  [][(\E i \in Callers : inv'[i] # inv[i])
       => /\ Len(articles') >= Len(articles)
          /\ \A k \in 1..Len(articles) : articles'[k] = articles[k]]_vars

\* a run has been fed an item with the identifier of the hand-edited row and
\* other content, and has finished its loop with the row in place
C6_Witness ==
  \E i \in Callers :
    /\ inv[i].pc = "setts" /\ inv[i].posts = FeedEdited
    /\ \E k \in 1..Len(articles) : articles[k] = RowA

\* C7: no two stored rows share an fb_post_id, and no fb_post_id is counted
\* as inserted twice.
C7_UniqueIds ==
  /\ \A k, l \in 1..Len(articles) :
       articles[k].fb_post_id = articles[l].fb_post_id => k = l
  /\ \A k, l \in 1..Len(insertLog) : insertLog[k] = insertLog[l] => k = l

\* two runs whose snapshots both lacked "C" have both attempted its insert:
\* one counted it, the other did not
C7_Witness ==
  \E i, j \in Callers :
    /\ i # j
    /\ inv[i].pc = "setts" /\ inv[j].pc = "setts"
    /\ inv[i].posts = FeedABC /\ inv[j].posts = FeedABC
    /\ "C" \notin inv[i].existingIds /\ "C" \notin inv[j].existingIds
    /\ inv[i].inserted = 1 /\ inv[j].inserted = 0 /\ inv[j].attempts = 1

\* C8: when the loop of a run is over and the fed items are parseable with
\* pairwise distinct identifiers, inserted is the number of items outside the
\* snapshot and skippedExisting the number of items in it.
C8_DedupCounts ==
  \A i \in Callers :
    (/\ inv[i].pc = "setts"
     /\ \A k \in 1..Len(inv[i].posts) : parsePost(inv[i].posts[k]) # NoArticle
     /\ \A k, l \in 1..Len(inv[i].posts) :
          inv[i].posts[k].id = inv[i].posts[l].id => k = l)
      => /\ inv[i].inserted =
              Cardinality({k \in 1..Len(inv[i].posts) : inv[i].posts[k].id \notin inv[i].existingIds})
         /\ inv[i].skippedExisting =
              Cardinality({k \in 1..Len(inv[i].posts) : inv[i].posts[k].id \in inv[i].existingIds})

\* C9: the step in which the fetch of a run fails inserts nothing, leaves
\* lastSyncTime alone, answers a POST /api/sync with a failure, and leaves
\* the run finished with the lazy slot empty.
C9_FeedFailure ==
  [][\A i \in Callers :
       (inv[i].pc = "fetch" /\ inv'[i].pc = "done")
         => /\ articles' = articles
            /\ getLastSyncTime(sync_meta') = getLastSyncTime(sync_meta)
            /\ inv'[i].inserted = 0 /\ inv'[i].attempts = 0 /\ inv'[i].tsWrites = 0
            /\ inv[i].op = "post"
                 => /\ inv'[i].result.kind = "rejected"
                    /\ inv'[i].response = [status |-> 500, success |-> FALSE]
            /\ inv[i].op = "lazy" => lazySyncPromise' = NoPromise]_vars

\* a forced POST /api/sync has been answered 500 after its fetch failed
C9_Witness ==
  \E i \in Callers :
    /\ inv[i].op = "post" /\ inv[i].force /\ inv[i].fetches = 1
    /\ inv[i].result.kind = "rejected" /\ inv[i].response.status = 500

C11_LateDuplicate ==
  \A i \in Callers :
    inv[i].pc = "setts"
      => inv[i].skippedExisting =
           Cardinality({k \in 1..Len(inv[i].posts) : inv[i].posts[k].id \in inv[i].existingIds})
             + (inv[i].attempts - inv[i].inserted)

\* C14: a run started by lazySync and a run started by a forced POST /api/sync
\* are never in progress together.
C14_SharedSlot ==
  \A i, j \in Callers :
    ~(/\ inv[i].op = "lazy" /\ InRun(i)
      /\ inv[j].op = "post" /\ inv[j].force /\ InRun(j))

\* C15 as claimed: the snapshot a run takes holds the fb_post_id of every
\* stored row.
C15_SnapshotAll ==
  [][\A i \in Callers :
       (inv[i].pc = "ids" /\ inv'[i].pc = "fetch")
         => inv'[i].existingIds = StoredIds(articles)]_vars

\* C15 as amended: the snapshot holds the fb_post_id of exactly the stored
\* rows whose source is 'facebook', hidden and hand-edited ones included.
C15_SnapshotFacebook ==
  [][\A i \in Callers :
       (inv[i].pc = "ids" /\ inv'[i].pc = "fetch")
         => /\ \A k \in 1..Len(articles) :
                 articles[k].fb_post_id \in inv'[i].existingIds
                   <=> articles[k].source = "facebook"
            /\ inv'[i].existingIds \subseteq StoredIds(articles)]_vars

\* a snapshot was taken of a store with a hidden row, a hand-edited row and
\* a row written by an administrator
C15_Witness ==
  \E i \in Callers :
    /\ inv[i].pc = "fetch" /\ inv[i].existingIds = {"A", "B"}
    /\ \E k \in 1..Len(articles) : articles[k] = RowAdmin
    /\ \E k \in 1..Len(articles) : articles[k] = RowB

\* C20: when the loop of a run is over, the items in the snapshot are the
\* duplicate-skips whatever their text, the unparseable ones among the others
\* are the content-skips, and the remaining ones are the insert attempts.
C20_Classification ==
  \A i \in Callers :
    inv[i].pc = "setts"
      => LET idxs == 1..Len(inv[i].posts)
             known == {k \in idxs : inv[i].posts[k].id \in inv[i].existingIds}
             blank == {k \in idxs \ known : parsePost(inv[i].posts[k]) = NoArticle}
         IN  /\ inv[i].skippedExisting = Cardinality(known)
             /\ inv[i].skippedNoContent = Cardinality(blank)
             /\ inv[i].attempts = Cardinality(idxs \ (known \cup blank))

\* a run was fed a known item without text, a known item with text and an
\* unknown item without text
C20_Witness ==
  \E i \in Callers :
    /\ inv[i].pc = "setts" /\ inv[i].posts = FeedEdited
    /\ "B" \in inv[i].existingIds
    /\ inv[i].skippedExisting = 2 /\ inv[i].skippedNoContent = 1

\* C12: syncPosts rejects only when the Feed Source fetch has failed.
C12_OnlyFeedFails ==
  \A i \in Callers :
    inv[i].result.kind \in {"rejected", "error"} => inv[i].fetches = 1

\* C13: the promise lazySync returns is never a rejected one, whether the
\* run it started failed on the environment, the database or the fetch.
C13_LazyNeverRejects ==
  /\ [](\A i \in Callers : inv[i].op \in {"lazy", "join"} => inv[i].result.kind # "rejected")
  /\ [][\A i \in Callers :
          (inv[i].op = "lazy" /\ inv'[i].op = "lazy" /\ inv[i].pc # "done" /\ inv'[i].pc = "done")
            => inv'[i].result.kind \in {"ok", "error"}]_vars

\* a run started by lazySync failed on the database, and lazySync resolved
\* with {error}
C13_Witness ==
  \E i \in Callers :
    /\ inv[i].op = "lazy" /\ inv[i].pc = "done"
    /\ inv[i].result = [kind |-> "error", error |-> "SQLITE_ERROR"]

\* C16: a post whose text is missing, empty or made of whitespace only is
\* skipped as having no content; every other post is parsed into an article
\* with a non-empty headline and goes to the insert; no stored row has an
\* empty headline.
C16_Ingestible ==
  /\ \A i \in Callers :
       (Len(inv[i].posts) = 1 /\ inv[i].pc \in {"insert", "setts"})
         => LET post == inv[i].posts[1]
                blank == \/ "message" \notin DOMAIN post
                         \/ \A k \in 1..Len(post.message) :
                              post.message[k] \in {" ", "\t", "\r", "\n"}
            IN  IF blank
                THEN /\ inv[i].pc = "setts"
                     /\ inv[i].attempts = 0 /\ inv[i].skippedNoContent = 1
                ELSE /\ inv[i].skippedNoContent = 0
                     /\ inv[i].pc = "setts" => inv[i].attempts = 1
                     /\ inv[i].pc = "insert"
                          => /\ inv[i].article # NoArticle
                             /\ inv[i].article.headline # <<>>
  /\ \A k \in 1..Len(articles) : articles[k].headline # <<>>

\* a post made of a blank line and a line break was skipped
C16_Witness ==
  \E i \in Callers :
    /\ inv[i].pc = "setts" /\ inv[i].skippedNoContent = 1
    /\ inv[i].posts = <<PostWith(<<"\n", " ", "\n">>)>>

\* C17: with L the first non-empty trimmed line, the headline is L up to and
\* including its first period when L has a period, is longer than 100
\* characters and has at least 20 characters before that period; otherwise
\* the headline is L.
C17_Headline ==
  \A i \in Callers :
    (Len(inv[i].posts) = 1 /\ inv[i].pc = "insert")
      => LET L == Lines(inv[i].posts[1].message)[1]
             dots == {k \in 1..Len(L) : L[k] = "."}
             p == IF dots = {} THEN 0 ELSE CHOOSE k \in dots : \A j \in dots : k <= j
         IN  inv[i].article.headline =
               IF p > 0 /\ Len(L) > 100 /\ p - 1 >= 20 THEN SubSeq(L, 1, p) ELSE L

\* a first line of 101 characters with 20 before its period was cut to 21
C17_Witness ==
  \E i \in Callers :
    /\ Len(inv[i].posts) = 1 /\ inv[i].pc = "insert"
    /\ Len(Lines(inv[i].posts[1].message)[1]) = 101
    /\ Len(inv[i].article.headline) = 21

\* C18: with J the non-empty lines after the first joined by line breaks, the
\* body is the trimmed text of J before its first run of 44 dashes and holds
\* no such run; when J has no such run the body is J trimmed.
C18_Footer ==
  \A i \in Callers :
    (Len(inv[i].posts) = 1 /\ inv[i].pc = "insert")
      => LET J == Join(Tail(Lines(inv[i].posts[1].message)), "\n")
             body == inv[i].article.body
             runs == {p \in 1..(Len(J) - 43) : \A q \in p..(p + 43) : J[q] = "-"}
         IN  IF runs = {}
             THEN body = Trim(J)
             ELSE LET p == CHOOSE k \in runs : \A j \in runs : k <= j
                  IN  /\ body = Trim(SubSeq(J, 1, p - 1))
                      /\ \A r \in 1..(Len(body) - 43) :
                           \E q \in r..(r + 43) : body[q] # "-"

\* a body of a letter, 44 dashes and a letter was cut to the first letter
C18_Witness ==
  \E i \in Callers :
    /\ Len(inv[i].posts) = 1 /\ inv[i].pc = "insert"
    /\ Len(Join(Tail(Lines(inv[i].posts[1].message)), "\n")) = 46
    /\ inv[i].article.body = <<"a">>

\* C19: the headline of a parsed post is its first non-empty line, and the
\* headline and the body, put together, are the text of the post's lines
\* before the separator.
C19_FirstLineRest ==
  \A i \in Callers :
    (Len(inv[i].posts) = 1 /\ inv[i].pc = "insert")
      => LET ls == Lines(inv[i].posts[1].message)
             kept == Trim(BeforeFirst(Join(ls, "\n"), Marker))
             headline == inv[i].article.headline
             body == inv[i].article.body
         IN  /\ headline = ls[1]
             /\ ~Includes(ls[1], Marker)
                  => kept = IF body = <<>> THEN headline ELSE headline \o <<"\n">> \o body

\* C21: within a run the insert attempts are issued in feed order, one at a
\* time: while the attempt for item idx is outstanding every earlier item has
\* been skipped or has had its attempt completed, the next attempt is for a
\* later item, and setLastSyncTime is issued only when every item has been
\* dealt with and written only from there.
C21_Ordering ==
  /\ [](\A i \in Callers :
          /\ inv[i].pc = "insert"
               => /\ inv[i].idx \in 1..Len(inv[i].posts)
                  /\ inv[i].article = parsePost(inv[i].posts[inv[i].idx])
                  /\ inv[i].attempts + inv[i].skippedExisting + inv[i].skippedNoContent
                       = inv[i].idx - 1
          /\ inv[i].pc = "setts"
               => inv[i].attempts + inv[i].skippedExisting + inv[i].skippedNoContent
                    = Len(inv[i].posts))
  /\ [][\A i \in Callers :
          /\ inv'[i].attempts > inv[i].attempts
               => inv[i].pc = "insert" /\ inv'[i].attempts = inv[i].attempts + 1
          /\ (inv[i].pc = "insert" /\ inv'[i].pc = "insert" /\ inv'[i] # inv[i])
               => inv'[i].idx > inv[i].idx /\ inv'[i].posts = inv[i].posts
          /\ inv'[i].tsWrites > inv[i].tsWrites => inv[i].pc = "setts"]_vars

\* three items were attempted in turn and the timestamp write is outstanding
C21_Witness ==
  \E i \in Callers :
    inv[i].pc = "setts" /\ inv[i].posts = FeedABC /\ inv[i].attempts = 3

\* C23: an invocation of syncPosts issues at most one Feed Source request,
\* with page limit 25, and none when the cooldown skips it; when the request
\* fails the run ends there, with no second request.
C23_BoundedCalls ==
  /\ [](\A i \in Callers :
          /\ inv[i].fetches <= 1
          /\ inv[i].fetches = 1 => inv[i].limit = 25
          /\ inv[i].pc \in {"cooldown", "wait"} => inv[i].fetches = 0
          /\ inv[i].result.kind = "skipped" => inv[i].fetches = 0)
  /\ [][\A i \in Callers :
          (inv[i].pc = "fetch" /\ inv'[i] # inv[i])
            => /\ inv'[i].fetches = 1
               /\ inv'[i].pc \in {"insert", "setts", "done"}
               /\ inv'[i].pc = "done"
                    => /\ inv'[i].result.kind \in {"rejected", "error"}
                       /\ inv'[i].result.error = "Request failed"]_vars

\* a run ended on a failed request, having issued that one request
C23_Witness ==
  \E i \in Callers :
    /\ inv[i].pc = "done" /\ inv[i].fetches = 1 /\ inv[i].limit = 25
    /\ inv[i].result.kind \in {"rejected", "error"}
    /\ inv[i].result.error = "Request failed"

C27_CounterConservation ==
  \A i \in Callers :
    (inv[i].pc = "done" /\ inv[i].result.kind = "ok")
      => inv[i].result.inserted + inv[i].result.skippedExisting
           + inv[i].result.skippedNoContent = inv[i].result.total

\* C28: while a run started by lazySync is in progress the slot is not null,
\* and the slot goes from a run to null only in the step in which that very
\* run finishes.
C28_SlotReflectsRun ==
  /\ [](\A i \in Callers : (inv[i].op = "lazy" /\ InRun(i)) => lazySyncPromise # NoPromise)
  /\ [][(lazySyncPromise # NoPromise /\ lazySyncPromise' = NoPromise)
          => /\ inv[lazySyncPromise].op = "lazy" /\ InRun(lazySyncPromise)
             /\ inv'[lazySyncPromise].pc = "done"]_vars

\* C29: every step that changes the stored lastSyncTime stores a value at
\* least as large as the one before, and a run that ends skipped or failed
\* leaves it as it was.
C29_TimestampMonotonic ==
  [][/\ getLastSyncTime(sync_meta') >= getLastSyncTime(sync_meta)
     /\ \A i \in Callers :
          (inv[i].pc # "done" /\ inv'[i].pc = "done"
             /\ inv'[i].result.kind \in {"skipped", "rejected", "error"})
            => sync_meta' = sync_meta]_vars

\* C30: when the read of the sync timestamp fails or finds no row the run is
\* due and goes on; when the write of the timestamp fails the run still
\* returns its normal result and the stored lastSyncTime keeps its value;
\* when the write succeeds the stored value is the run's stamp.
C30_TimestampErrorsAbsorbed ==
  [][\A i \in Callers :
       /\ (/\ inv[i].pc \in {"cooldown", "lazyCheck"} /\ inv'[i] # inv[i]
           /\ (inv'[i].readFailed \/ sync_meta = {}))
            => /\ inv'[i].pc = IF envConfigured THEN "ids" ELSE "done"
               /\ envConfigured => inv'[i].result = NoResult
               /\ sync_meta' = sync_meta
       /\ (inv[i].pc = "setts" /\ inv'[i] # inv[i])
            => /\ inv'[i].pc = "done"
               /\ inv'[i].result.kind = "ok"
               /\ inv'[i].result.total = Len(inv[i].posts)
               /\ inv'[i].result.inserted = inv[i].inserted
               /\ IF inv'[i].tsFailed
                  THEN sync_meta' = sync_meta
                  ELSE getLastSyncTime(sync_meta') = inv[i].stamp]_vars

\* a syncPosts(false) run went on after a failed read although the stored
\* timestamp is fresh, inserted a row, failed to write the timestamp and
\* returned ok; the stored timestamp is the one from the start
C30_Witness ==
  \E i \in Callers :
    /\ inv[i].pc = "done" /\ inv[i].op = "post"
    /\ inv[i].readFailed /\ inv[i].tsFailed
    /\ inv[i].result.kind = "ok" /\ inv[i].result.inserted > 0
    /\ getLastSyncTime(sync_meta) = StartTime

\* C24: when every outstanding call is answered, a run started by lazySync
\* ends, with a result or with {error}; the step that ends it leaves the slot
\* null, the slot is null whenever no such run is in progress, and a lazySync
\* that then finds the sync due starts a run and takes the slot.
C24_ReturnToIdle ==
  /\ \A i \in Callers :
       (inv[i].op = "lazy" /\ InRun(i))
         ~> (inv[i].pc = "done" /\ inv[i].result.kind \in {"ok", "error"})
  /\ []((\A i \in Callers : ~(inv[i].op = "lazy" /\ InRun(i))) => lazySyncPromise = NoPromise)
  /\ [][\A i \in Callers :
          /\ (inv[i].op = "lazy" /\ InRun(i) /\ inv'[i].pc = "done")
               => lazySyncPromise' = NoPromise
          /\ (inv[i].pc = "lazyCheck" /\ inv'[i] # inv[i] /\ shouldSync(sync_meta, now))
               => inv'[i].pc = "ids" /\ lazySyncPromise' = i]_vars

\* a run started by lazySync has failed, and a lazySync that checked the
\* cooldown afterwards has its run in progress and holds the slot
C24_Witness ==
  \E i, j \in Callers :
    /\ inv[i].op = "lazy" /\ inv[i].pc = "done" /\ inv[i].result.kind = "error"
    /\ inv[j].op = "lazy" /\ InRun(j) /\ lazySyncPromise = j

\* C26: of the ensureInitialSync callers on an empty database only one calls
\* syncPosts, namely while no promise is stored, and any two callers that are
\* waiting hold the same promise.
C26_InitialCoalescing ==
  /\ [][\A i \in Callers :
          (inv[i].pc = "count" /\ inv'[i].pc = "cooldown") => initialSyncPromise = NoPromise]_vars
  /\ [](Cardinality({i \in Callers : inv[i].op = "initial" /\ inv[i].pc # "count"}) <= 1)
  /\ [](\A i, j \in Callers :
          LET awaited(k) == IF inv[k].op = "initial" THEN k ELSE inv[k].result.promise
              waits(k) == \/ inv[k].op = "initial" /\ inv[k].pc # "count"
                          \/ inv[k].op = "initialJoin"
          IN  (waits(i) /\ waits(j)) => awaited(i) = awaited(j))

\* C22: the snapshot a run takes holds every identifier that the runs
\* completed before its start had in their snapshots or inserted, whatever
\* the admin has edited, hidden or shown again in between.
C22_MonotonicKnownIds ==
  [][\A i \in Callers :
       (inv[i].pc = "ids" /\ inv'[i].pc = "fetch")
         => inv[i].knownAtStart \subseteq inv'[i].existingIds]_vars

\* a run that started after another had completed took its snapshot; a row
\* the earlier run inserted has been edited and hidden since
C22_Witness ==
  \E i \in Callers :
    /\ inv[i].pc = "fetch" /\ inv[i].knownAtStart # {}
    /\ \E k \in 1..Len(articles) :
         /\ articles[k].fb_post_id \in inv[i].knownAtStart
         /\ \E n \in 1..Len(insertLog) : insertLog[n] = articles[k].fb_post_id
         /\ articles[k].is_hidden = 1
         /\ articles[k].headline = <<"E", "d">>

====
